---- MODULE Spec2Model ----
(***************************************************************************)
(* Direct Line client (src/directline_client.py): the DirectLineClient     *)
(* class, the query_directline tool and main, against a Direct Line server *)
(* that answers each request with a status and a JSON body.                *)
(*                                                                         *)
(* Three specifications:                                                   *)
(*   SpecExtract  _extract_markdown_content applied to activity payloads   *)
(*   Spec         a caller using the DirectLineClient methods              *)
(*   SpecMain     main: token, conversation, agent steps running the tool  *)
(***************************************************************************)
EXTENDS Integers, Sequences, FiniteSets, TLC

\* ------------------------------------------------------------- bounds
\* longest activity payload handed to _extract_markdown_content (SpecExtract)
MaxLen == 3
\* most activities the bot adds to the conversation (Spec, SpecMain)
MaxReplies == 2
\* most calls the caller of the client makes (Spec)
MaxCalls == 5

\* ------------------------------------------------------------- values
\* Python's None
None == "None"
\* a key that the JSON object does not hold
Absent == "absent"
\* a JSON value that is not an object (null); .get on it raises AttributeError
Null == "null"
\* a JSON object
Obj == "obj"
\* no exception left the call
NoExc == "none"

\* DirectLineConfig.retry_attempts: declared, read by no call
retry_attempts == 3
\* ToolCallingAgent(max_steps=2)
max_steps == 2

\* `not x` of Python for the values used here: None and "" are falsy
Falsy(x) == x \in {None, "", Absent, Null}

\* ------------------------------------------------------------- activities
\* An activity of the conversation as the server returns it. The fields value,
\* observation, search_result, Text tell what the key holds on the path
\* value.observation.search_result.Text (Absent, Null or Obj); MarkdownContent
\* is Absent, Null or the string.
Act(type, from, name, valueType, value, observation, search_result, Text, md) ==
  [type |-> type, from |-> from, name |-> name, valueType |-> valueType,
   value |-> value, observation |-> observation,
   search_result |-> search_result, Text |-> Text, MarkdownContent |-> md,
   attachments |-> Absent]

\* a DynamicPlanStepFinished event whose path is complete down to MarkdownContent
PlanStep(md) ==
  Act("event", "bot", Absent, "DynamicPlanStepFinished", Obj, Obj, Obj, Obj, md)

\* the payload of send_message
MessageActivity ==
  Act("message", "user123", Absent, Absent, Absent, Absent, Absent, Absent, Absent)

\* the payload of the tool's message post: the message with the OAuth card
ToolMessageActivity ==
  [MessageActivity EXCEPT !.attachments = "application/vnd.microsoft.card.oauth"]

\* the payload of send_user_token and of the tool's token post
TokenEvent ==
  Act("event", "user123", "tokens/response", Absent, Obj, Absent, Absent, Absent, Absent)

\* what the bot may add to the conversation
BotActivities ==
  { PlanStep("md1"), PlanStep("md2"), PlanStep(""), PlanStep(Null), PlanStep(Absent),
    \* the path breaks off: a key is missing
    Act("event", "bot", Absent, "DynamicPlanStepFinished", Absent, Absent, Absent, Absent, Absent),
    Act("event", "bot", Absent, "DynamicPlanStepFinished", Obj, Obj, Absent, Absent, Absent),
    \* the path meets a value that is no object
    Act("event", "bot", Absent, "DynamicPlanStepFinished", Null, Absent, Absent, Absent, Absent),
    Act("event", "bot", Absent, "DynamicPlanStepFinished", Obj, Null, Absent, Absent, Absent),
    Act("event", "bot", Absent, "DynamicPlanStepFinished", Obj, Obj, Obj, Null, Absent),
    \* not the event looked for, with content
    Act("message", "bot", Absent, "DynamicPlanStepFinished", Obj, Obj, Obj, Obj, "md1"),
    Act("event", "bot", Absent, "Other", Obj, Obj, Obj, Obj, "md2") }

\* what the bot adds in Spec and SpecMain: content, empty content, a value
\* that is no object, and an event of another kind
BotReplies ==
  { PlanStep("md1"), PlanStep(""),
    Act("event", "bot", Absent, "DynamicPlanStepFinished", Null, Absent, Absent, Absent, Absent),
    Act("event", "bot", Absent, "Other", Obj, Obj, Obj, Obj, "md2") }

\* ------------------------------------------------------------- extraction
\* d.get(key, {}) where d is what the previous step gave ("{}" is the default
\* empty dict) and child is what d holds under key
GetDefault(d, child) ==
  IF d = Null THEN "AttributeError"
  ELSE IF d = "{}" \/ child = Absent THEN "{}"
  ELSE child

\* text.get("MarkdownContent")
GetLeaf(d, child) ==
  IF d = Null THEN "AttributeError"
  ELSE IF d = "{}" \/ child = Absent \/ child = Null THEN None
  ELSE child

\* One pass of the loop body of _extract_markdown_content: the content to
\* return, None to go on with the next activity, or "AttributeError"
ScanActivity(activity) ==
  IF activity.type = "event" /\ activity.valueType = "DynamicPlanStepFinished"
  THEN LET value == GetDefault(Obj, activity.value)
           observation == GetDefault(value, activity.observation)
           search_result == IF observation = "AttributeError" THEN observation
                            ELSE GetDefault(observation, activity.search_result)
           text == IF search_result = "AttributeError" THEN search_result
                   ELSE GetDefault(search_result, activity.Text)
           markdown_content == IF text = "AttributeError" THEN text
                               ELSE GetLeaf(text, activity.MarkdownContent)
       IN IF markdown_content = "AttributeError" THEN "AttributeError"
          ELSE IF Falsy(markdown_content) THEN None
          ELSE markdown_content
  ELSE None

RECURSIVE extract_markdown_content(_)
extract_markdown_content(activities) ==
  IF activities = <<>> THEN [ret |-> None, exc |-> NoExc]
  ELSE LET r == ScanActivity(Head(activities))
       IN IF r = "AttributeError" THEN [ret |-> None, exc |-> "AttributeError"]
          ELSE IF r # None THEN [ret |-> r, exc |-> NoExc]
          ELSE extract_markdown_content(Tail(activities))

\* ------------------------------------------------------------- state
VARIABLES
  client,           \* the DirectLineClient's secret and bot_id, NoClient before construction
  token,            \* what get_token returned to the caller (main's token)
  conversation_id,  \* what start_conversation returned (main's conversation_id)
  activities,       \* server: the activities of the conversation, in order
  net,              \* requests issued so far, per endpoint
  calls,            \* operations called so far
  last,             \* the most recent call: its inputs and its outcome
  pc,               \* main and query_directline: the statement reached
  steps,            \* agent steps used
  data,             \* the payload last handed to _extract_markdown_content
  env               \* os.getenv: DIRECT_LINE_SECRET and BotIdentifier

vars == <<client, token, conversation_id, activities, net, calls, last, pc, steps,
          data, env>>

\* ------------------------------------------------------------- server answers
\* status 0: no HTTP answer (ConnectionError, Timeout); field: the JSON field
\* the caller reads from a 2xx body, Absent when the body does not hold it
Statuses == {0, 200, 201, 401}
Is2xx(status) == status >= 200 /\ status < 300
Resp(status, field) == [status |-> status, field |-> field]
Answers(fields) ==
  { Resp(s, f) : s \in Statuses, f \in fields \cup {Absent} }
    \ { Resp(s, f) : s \in {0, 401}, f \in fields }
TokenAnswers == Answers({"tok1", ""})
ConversationAnswers == Answers({"conv1"})
PostAnswers == Answers({})
\* field Obj: the body holds "activities", the conversation's list
GetAnswers == Answers({Obj})

\* requests.post / requests.get raising a RequestException: no answer at all
NoAnswer(resp) == resp.status = 0
\* response.raise_for_status(): HTTPError for 4xx and 5xx
raise_for_status(resp) == resp.status >= 400 /\ resp.status < 600

\* the outcome of a call: the returned value, the exception that left the
\* call, the line printed, and the requests issued
Outcome(ret, exc, printed, nreq) ==
  [ret |-> ret, exc |-> exc, printed |-> printed, nreq |-> nreq]

\* ------------------------------------------------------------- DirectLineClient
\* _validate_credentials with `and` for `or`
validate_credentials_and(secret, bot_id) ==
  IF Falsy(secret) /\ Falsy(bot_id) THEN "ValueError" ELSE NoExc

\* _validate_credentials: the exception raised, NoExc when there is none
validate_credentials(secret, bot_id) ==
  IF Falsy(secret) \/ Falsy(bot_id) THEN "ValueError" ELSE NoExc

\* __init__: no request is made; the client exists only if validation passes
init_client(secret, bot_id) ==
  Outcome(None, validate_credentials(secret, bot_id), "", 0)

\* get_token honouring retry_attempts: a failed request is issued again
get_token_retry(secret, resp) ==
  IF NoAnswer(resp) \/ raise_for_status(resp)
  THEN Outcome(None, NoExc, "Error generating Direct Line token", retry_attempts)
  ELSE IF resp.field = Absent
  THEN Outcome(None, "KeyError", "", 1)
  ELSE Outcome(resp.field, NoExc, "", 1)

get_token(secret, resp) ==
  IF NoAnswer(resp) \/ raise_for_status(resp)
  THEN Outcome(None, NoExc, "Error generating Direct Line token", 1)
  ELSE IF resp.field = Absent
  THEN Outcome(None, "KeyError", "", 1)
  ELSE Outcome(resp.field, NoExc, "", 1)

start_conversation(bot_id, tok, resp) ==
  IF NoAnswer(resp) \/ raise_for_status(resp)
  THEN Outcome(None, NoExc, "Failed to start conversation", 1)
  ELSE IF resp.field = Absent
  THEN Outcome(None, "KeyError", "", 1)
  ELSE Outcome(resp.field, NoExc, "", 1)

send_message(conv, message, tok, resp) ==
  IF NoAnswer(resp) \/ raise_for_status(resp)
  THEN Outcome("False", NoExc, "Error sending message", 1)
  ELSE Outcome("True", NoExc, "", 1)

send_user_token(conv, user_token, tok, resp) ==
  IF NoAnswer(resp) \/ raise_for_status(resp)
  THEN Outcome("False", NoExc, "Error sending user token", 1)
  ELSE Outcome("True", NoExc, "", 1)

\* response.json(): the conversation's list under "activities", or a body
\* without that key, for which data.get("activities", []) is the empty list
JsonActivities(resp, acts) == IF resp.field = Obj THEN acts ELSE <<>>

\* get_response with the except branch silent
get_response_silent(conv, tok, resp, acts) ==
  IF NoAnswer(resp) \/ raise_for_status(resp)
  THEN Outcome(None, NoExc, "", 1)
  ELSE LET r == extract_markdown_content(JsonActivities(resp, acts))
       IN Outcome(r.ret, r.exc, "", 1)

get_response(conv, tok, resp, acts) ==
  IF NoAnswer(resp) \/ raise_for_status(resp)
  THEN Outcome(None, NoExc, "Error getting responses", 1)
  ELSE LET r == extract_markdown_content(JsonActivities(resp, acts))
       IN Outcome(r.ret, r.exc, "", 1)

\* ------------------------------------------------------------- bookkeeping
NoNet == [tokens |-> 0, conversations |-> 0, message |-> 0, event |-> 0, get |-> 0]
Sent(n) == n.tokens + n.conversations + n.message + n.event + n.get
NoCall == [op |-> "none", args |-> <<>>, resp |-> Resp(0, Absent),
           ret |-> None, exc |-> NoExc, printed |-> "", nreq |-> 0]
\* the record of a call of op with args, answered resp, with outcome o
Call(op, args, resp, o) ==
  [op |-> op, args |-> args, resp |-> resp,
   ret |-> o.ret, exc |-> o.exc, printed |-> o.printed, nreq |-> o.nreq]

\* no DirectLineClient has been constructed
NoClient == [secret |-> None, bot_id |-> None]

\* the values an environment variable may hold: unset, empty, set
Secrets == {None, "", "S"}
BotIds == {None, "", "B"}

\* the server stores a posted activity when it answers 2xx
Stored(acts, resp, activity) ==
  IF Is2xx(resp.status) THEN Append(acts, activity) ELSE acts

\* how many activities of the list come from the bot
Replies(acts) == Cardinality({ i \in 1..Len(acts) : acts[i].from = "bot" })

\* ------------------------------------------------------------- SpecExtract
Payloads == BotActivities \cup {MessageActivity, TokenEvent}

InitExtract ==
  /\ data \in UNION { [1..n -> Payloads] : n \in 0..MaxLen }
  /\ pc = "extract"
  /\ client = NoClient /\ token = None /\ conversation_id = None
  /\ activities = <<>> /\ net = NoNet /\ calls = 0 /\ last = NoCall /\ steps = 0
  /\ env = NoClient

\* _extract_markdown_content(data)
Extract ==
  /\ pc = "extract"
  /\ last' = Call("_extract_markdown_content", <<>>, Resp(200, Obj),
                  LET r == extract_markdown_content(data)
                  IN Outcome(r.ret, r.exc, "", 0))
  /\ pc' = "extracted"
  /\ UNCHANGED <<client, token, conversation_id, activities, net, calls, steps, data, env>>

NextExtract == Extract
SpecExtract == InitExtract /\ [][NextExtract]_vars

\* ------------------------------------------------------------- Spec: the client's caller
\* The caller holds what the calls returned and, like main, goes on to the
\* next call only with a token and a conversation id in hand.
Init ==
  /\ client = NoClient /\ token = None /\ conversation_id = None
  /\ activities = <<>> /\ net = NoNet /\ calls = 0 /\ last = NoCall
  /\ pc = "caller" /\ steps = 0 /\ data = <<>> /\ env = NoClient

\* DirectLineClient(secret, bot_id)
Construct ==
  /\ pc = "caller" /\ client = NoClient /\ calls < MaxCalls
  /\ \E secret \in Secrets, bot_id \in BotIds :
       LET o == init_client(secret, bot_id)
       IN /\ last' = Call("__init__", <<secret, bot_id>>, Resp(0, Absent), o)
          /\ client' = IF o.exc = NoExc
                        THEN [secret |-> secret, bot_id |-> bot_id] ELSE client
          /\ net' = net
  /\ calls' = calls + 1
  /\ UNCHANGED <<token, conversation_id, activities, pc, steps, data, env>>

\* token = client.get_token()
GetToken ==
  /\ pc = "caller" /\ client # NoClient /\ calls < MaxCalls
  /\ \E resp \in TokenAnswers :
       LET o == get_token(client.secret, resp)
       IN /\ last' = Call("get_token", <<>>, resp, o)
          /\ net' = [net EXCEPT !.tokens = @ + o.nreq]
          /\ token' = IF o.exc = NoExc THEN o.ret ELSE token
  /\ calls' = calls + 1
  /\ UNCHANGED <<client, conversation_id, activities, pc, steps, data, env>>

\* conversation_id = client.start_conversation(token)
StartConversation ==
  /\ pc = "caller" /\ client # NoClient /\ calls < MaxCalls
  /\ ~Falsy(token) /\ conversation_id = None
  /\ \E resp \in ConversationAnswers :
       LET o == start_conversation(client.bot_id, token, resp)
       IN /\ last' = Call("start_conversation", <<token>>, resp, o)
          /\ net' = [net EXCEPT !.conversations = @ + o.nreq]
          /\ conversation_id' = IF o.exc = NoExc THEN o.ret ELSE conversation_id
  /\ calls' = calls + 1
  /\ UNCHANGED <<client, token, activities, pc, steps, data, env>>

\* send_message that skips the post when the same activity was sent before
SendMessageDedup ==
  /\ pc = "caller" /\ client # NoClient /\ calls < MaxCalls
  /\ ~Falsy(conversation_id)
  /\ \E resp \in PostAnswers :
       LET seen == \E i \in 1..Len(activities) : activities[i] = MessageActivity
           o == IF seen THEN Outcome("True", NoExc, "", 0)
                ELSE send_message(conversation_id, "hi", token, resp)
       IN /\ last' = Call("send_message", <<conversation_id, "hi", token>>, resp, o)
          /\ net' = [net EXCEPT !.message = @ + o.nreq]
          /\ activities' = IF seen THEN activities
                            ELSE Stored(activities, resp, MessageActivity)
  /\ calls' = calls + 1
  /\ UNCHANGED <<client, token, conversation_id, pc, steps, data, env>>

\* client.send_message(conversation_id, "hi", token)
SendMessage ==
  /\ pc = "caller" /\ client # NoClient /\ calls < MaxCalls
  /\ ~Falsy(conversation_id)
  /\ \E resp \in PostAnswers :
       LET o == send_message(conversation_id, "hi", token, resp)
       IN /\ last' = Call("send_message", <<conversation_id, "hi", token>>, resp, o)
          /\ net' = [net EXCEPT !.message = @ + o.nreq]
          /\ activities' = Stored(activities, resp, MessageActivity)
  /\ calls' = calls + 1
  /\ UNCHANGED <<client, token, conversation_id, pc, steps, data, env>>

\* client.send_user_token(conversation_id, user_token, token)
SendUserToken ==
  /\ pc = "caller" /\ client # NoClient /\ calls < MaxCalls
  /\ ~Falsy(conversation_id)
  /\ \E resp \in PostAnswers :
       LET o == send_user_token(conversation_id, "ut", token, resp)
       IN /\ last' = Call("send_user_token", <<conversation_id, "ut", token>>, resp, o)
          /\ net' = [net EXCEPT !.event = @ + o.nreq]
          /\ activities' = Stored(activities, resp, TokenEvent)
  /\ calls' = calls + 1
  /\ UNCHANGED <<client, token, conversation_id, pc, steps, data, env>>

\* client.get_response(conversation_id, token)
GetResponse ==
  /\ pc = "caller" /\ client # NoClient /\ calls < MaxCalls
  /\ ~Falsy(conversation_id)
  /\ \E resp \in GetAnswers :
       LET o == get_response(conversation_id, token, resp, activities)
       IN /\ last' = Call("get_response", <<conversation_id, token>>, resp, o)
          /\ net' = [net EXCEPT !.get = @ + o.nreq]
          /\ data' = IF NoAnswer(resp) \/ raise_for_status(resp)
                      THEN data ELSE JsonActivities(resp, activities)
  /\ calls' = calls + 1
  /\ UNCHANGED <<client, token, conversation_id, activities, pc, steps, env>>

\* the bot adds an activity to the open conversation
BotReply ==
  /\ ~Falsy(conversation_id) /\ Replies(activities) < MaxReplies
  /\ \E a \in BotReplies : activities' = Append(activities, a)
  /\ UNCHANGED <<client, token, conversation_id, net, calls, last, pc, steps, data, env>>

Next ==
  \/ Construct \/ GetToken \/ StartConversation
  \/ SendMessage \/ SendUserToken \/ GetResponse \/ BotReply
Spec == Init /\ [][Next]_vars

\* ------------------------------------------------------------- SpecMain: main and the tool
\* main runs to the agent; each agent step may run query_directline, whose
\* three requests and sleep are separate steps, so that the bot can add
\* activities in between.
InitMain ==
  /\ env \in { [secret |-> s, bot_id |-> b] : s \in Secrets, b \in BotIds }
  /\ client = NoClient /\ token = None /\ conversation_id = None
  /\ activities = <<>> /\ net = NoNet /\ calls = 0 /\ last = NoCall
  /\ pc = "main" /\ steps = 0 /\ data = <<>>

\* client = DirectLineClient(secret=os.getenv(...), bot_id=os.getenv(...))
MainConstruct ==
  /\ pc = "main"
  /\ LET o == init_client(env.secret, env.bot_id)
     IN /\ last' = Call("__init__", <<env.secret, env.bot_id>>, Resp(0, Absent), o)
        /\ client' = IF o.exc = NoExc THEN env ELSE client
        /\ pc' = IF o.exc = NoExc THEN "get_token" ELSE "crashed"
  /\ UNCHANGED <<calls, token, conversation_id, activities, net, steps, data, env>>

\* `if not token: return`
TokenMissing(tok) == Falsy(tok)

\* token = client.get_token(); if not token: return
MainGetToken ==
  /\ pc = "get_token"
  /\ \E resp \in TokenAnswers :
       LET o == get_token(client.secret, resp)
       IN /\ last' = Call("get_token", <<>>, resp, o)
          /\ net' = [net EXCEPT !.tokens = @ + o.nreq]
          /\ token' = IF o.exc = NoExc THEN o.ret ELSE token
          /\ pc' = IF o.exc # NoExc THEN "crashed"
                    ELSE IF TokenMissing(o.ret) THEN "done" ELSE "start_conversation"
  /\ UNCHANGED <<calls, client, conversation_id, activities, steps, data, env>>

\* conversation_id = client.start_conversation(token); if not conversation_id: return
MainStartConversation ==
  /\ pc = "start_conversation"
  /\ \E resp \in ConversationAnswers :
       LET o == start_conversation(client.bot_id, token, resp)
       IN /\ last' = Call("start_conversation", <<token>>, resp, o)
          /\ net' = [net EXCEPT !.conversations = @ + o.nreq]
          /\ conversation_id' = IF o.exc = NoExc THEN o.ret ELSE conversation_id
          /\ pc' = IF o.exc # NoExc THEN "crashed"
                    ELSE IF Falsy(o.ret) THEN "done" ELSE "agent"
  /\ UNCHANGED <<calls, client, token, activities, steps, data, env>>

\* agent.run with max_steps=2: a step of the agent runs query_directline with
\* the conversation_id, message and token of additional_args
AgentRunsTool ==
  /\ pc = "agent" /\ steps < max_steps
  /\ steps' = steps + 1
  /\ pc' = "tool_post"
  /\ UNCHANGED <<client, token, conversation_id, activities, net, calls, last, data, env>>

\* the agent gives its answer; print(response)
AgentAnswers ==
  /\ pc = "agent"
  /\ pc' = "done"
  /\ UNCHANGED <<client, token, conversation_id, activities, net, calls, last, steps,
                 data, env>>

\* the tool's call returns ret, or raises exc, to the agent
ToolEnds(resp, ret, exc) ==
  /\ last' = Call("query_directline", <<conversation_id, "q", token>>, resp,
                  Outcome(ret, exc, "", 0))
  /\ pc' = "agent"

\* the status check left out
MessagePostUnchecked(resp) == FALSE

\* `if response.status_code != 200: return f"Error: ..."`
MessagePostFailed(resp) == resp.status # 200

\* response = requests.post(url, headers=headers, json=payload), outside any try
ToolPostMessage ==
  /\ pc = "tool_post"
  /\ \E resp \in PostAnswers :
       /\ net' = [net EXCEPT !.message = @ + 1]
       /\ activities' = Stored(activities, resp, ToolMessageActivity)
       /\ IF NoAnswer(resp) THEN ToolEnds(resp, None, "ConnectionError")
          ELSE IF MessagePostFailed(resp) THEN ToolEnds(resp, "Error: status - text", NoExc)
          ELSE pc' = "tool_token" /\ last' = last
  /\ UNCHANGED <<calls, client, token, conversation_id, steps, data, env>>

\* the token post repeated until the server answers 200
ToolPostTokenRetry ==
  /\ pc = "tool_token"
  /\ \E resp \in PostAnswers :
       /\ net' = [net EXCEPT !.event = @ + 1]
       /\ activities' = Stored(activities, resp, TokenEvent)
       /\ IF NoAnswer(resp) THEN ToolEnds(resp, None, "ConnectionError")
          ELSE /\ pc' = IF resp.status = 200 THEN "tool_client" ELSE pc
               /\ last' = last
  /\ UNCHANGED <<client, token, conversation_id, calls, steps, data, env>>

\* response = requests.post(send_token_url, ...): the tokens/response event;
\* either status is only printed
ToolPostToken ==
  /\ pc = "tool_token"
  /\ \E resp \in PostAnswers :
       /\ net' = [net EXCEPT !.event = @ + 1]
       /\ activities' = Stored(activities, resp, TokenEvent)
       /\ IF NoAnswer(resp) THEN ToolEnds(resp, None, "ConnectionError")
          ELSE pc' = "tool_client" /\ last' = last
  /\ UNCHANGED <<client, token, conversation_id, calls, steps, data, env>>

\* time.sleep(10); client = DirectLineClient(secret=os.getenv(...), ...)
ToolConstruct ==
  /\ pc = "tool_client"
  /\ LET o == init_client(env.secret, env.bot_id)
     IN IF o.exc = NoExc
        THEN pc' = "tool_poll" /\ last' = last
        ELSE ToolEnds(Resp(0, Absent), None, o.exc)
  /\ UNCHANGED <<client, token, conversation_id, activities, net, calls, steps, data, env>>

\* response = client.get_response(conversation_id, token); return response
ToolPoll ==
  /\ pc = "tool_poll"
  /\ \E resp \in GetAnswers :
       LET o == get_response(conversation_id, token, resp, activities)
       IN /\ net' = [net EXCEPT !.get = @ + o.nreq]
          /\ data' = IF NoAnswer(resp) \/ raise_for_status(resp)
                      THEN data ELSE JsonActivities(resp, activities)
          /\ ToolEnds(resp, o.ret, o.exc)
  /\ UNCHANGED <<client, token, conversation_id, activities, calls, steps, env>>

NextMain ==
  \/ MainConstruct \/ MainGetToken \/ MainStartConversation
  \/ AgentRunsTool \/ AgentAnswers
  \/ ToolPostMessage \/ ToolPostToken \/ ToolConstruct \/ ToolPoll
  \/ BotReply
SpecMain == InitMain /\ [][NextMain]_vars

\* ------------------------------------------------------------- properties
ClientOps ==
  {"get_token", "start_conversation", "send_message", "send_user_token", "get_response"}

\* the message activities of the user that the server holds
UserMessages(acts) ==
  Cardinality({ i \in 1..Len(acts) : acts[i] \in {MessageActivity, ToolMessageActivity} })

\* an activity of type event and valueType DynamicPlanStepFinished that holds
\* a (non-empty) string at value.observation.search_result.Text.MarkdownContent
HasContent(a) ==
  /\ a.type = "event" /\ a.valueType = "DynamicPlanStepFinished"
  /\ a.value = Obj /\ a.observation = Obj /\ a.search_result = Obj /\ a.Text = Obj
  /\ a.MarkdownContent \notin {Absent, Null, ""}

\* the content of the first such activity in server order, None without one
FirstContent(acts) ==
  LET I == { i \in 1..Len(acts) : HasContent(acts[i]) }
  IN IF I = {} THEN None
     ELSE acts[CHOOSE i \in I : \A j \in I : i <= j].MarkdownContent

\* the request got no answer or a 4xx/5xx one
TransportFailure(resp) == resp.status = 0 \/ resp.status >= 400

\* C1: constructing a DirectLineClient with the secret, the bot id or both
\* missing (None or empty) raises ValueError, issues no request and leaves no
\* client behind.
C1_MissingCredentials ==
  [][ ( /\ calls' = calls + 1 /\ last'.op = "__init__"
        /\ (last'.args[1] \in {None, ""} \/ last'.args[2] \in {None, ""}) )
      => ( last'.exc = "ValueError" /\ net' = net /\ client' = client ) ]_vars

C1_Witness ==
  /\ last.op = "__init__" /\ last.args = <<"", "B">>
  /\ last.exc = "ValueError" /\ Sent(net) = 0 /\ client = NoClient

\* C2: no call of get_token, start_conversation, send_message,
\* send_user_token or get_response lets an exception out; every failure comes
\* back as None or False.
C2_FailuresAbsorbed ==
  last.op \in ClientOps => last.exc = NoExc

\* C3: every run of query_directline returns a string to the agent and
\* raises nothing.
C3_ToolReturnsString ==
  last.op = "query_directline" => (last.exc = NoExc /\ last.ret # None)

\* C4: for every activity list, the extraction returns the content of the
\* first activity, in server order, with type event, valueType
\* DynamicPlanStepFinished and content at
\* value.observation.search_result.Text.MarkdownContent; activities without it
\* are skipped; without any such activity the result is None, and no error.
C4_FirstContent ==
  pc = "extracted" => (last.exc = NoExc /\ last.ret = FirstContent(data))

\* C5: the conversation is opened only after get_token returned a token, a
\* message is posted only after start_conversation returned a conversation
\* id, and there are never more polls than message posts the server accepted;
\* the token and the conversation are requested once.
C5_StepsInOrder ==
  /\ net.conversations > 0 => (net.tokens = 1 /\ token \notin {None, ""})
  /\ net.message > 0 => (net.conversations = 1 /\ conversation_id \notin {None, ""})
  /\ net.get <= UserMessages(activities)
  /\ net.get <= net.message

C5_Witness ==
  /\ pc = "done" /\ net.get = 2 /\ net.message = 2
  /\ last.op = "query_directline" /\ last.ret = "md1"

\* C6: a call of get_token issues exactly one request, to the token endpoint,
\* whatever the answer; answered 200 with a token it returns the token,
\* answered 401 it returns None.
C6_OneRequest ==
  [][ (calls' = calls + 1 /\ last'.op = "get_token")
      => ( /\ net'.tokens = net.tokens + 1
           /\ Sent(net') = Sent(net) + 1
           /\ (last'.resp.status = 200 /\ last'.resp.field # Absent)
                => (last'.ret = last'.resp.field /\ last'.exc = NoExc)
           /\ last'.resp.status = 401 => (last'.ret = None /\ last'.exc = NoExc) ) ]_vars

C6_Witness ==
  /\ last.op = "get_token" /\ last.resp.status = 401 /\ last.ret = None
  /\ net.tokens = 2 /\ Sent(net) = 2

\* C7 as claimed: the tokens/response event is posted at most once in the
\* conversation.
C7_AtMostOnce == net.event <= 1

\* C7 as amended: the tokens/response event is posted at most once per run
\* of the tool, after that run's message post, so at most max_steps times in
\* the conversation.
C7_AtMostOncePerStep ==
  /\ net.event <= net.message
  /\ net.message <= steps
  /\ steps <= max_steps

C7_Witness == net.event = 2 /\ steps = 2 /\ pc = "done"

\* C8: every call of send_message issues one post, also when the same
\* activity was sent before; a call that returns True adds exactly one message
\* activity to the conversation and a call that returns False adds none.
C8_NoDedup ==
  [][ (calls' = calls + 1 /\ last'.op = "send_message")
      => ( /\ net'.message = net.message + 1
           /\ last'.ret = "True" => activities' = Append(activities, MessageActivity)
           /\ last'.ret = "False" => activities' = activities ) ]_vars

C8_Witness ==
  /\ last.op = "send_message" /\ last.ret = "True"
  /\ UserMessages(activities) = 2 /\ net.message = 2

\* C9: with a token, a conversation id and a message accepted by the server,
\* a poll that the server answers with the activity list returns None while
\* the list holds no activity with content and the content once it does.
C9_PollFollowsServer ==
  ( /\ last.op = "get_response" /\ Is2xx(last.resp.status) /\ last.resp.field = Obj
    /\ token \notin {None, ""} /\ conversation_id \notin {None, ""}
    /\ UserMessages(data) > 0 )
  => (last.exc = NoExc /\ last.ret = FirstContent(data))

====
